---- MODULE Spec2Model ----
(***************************************************************************)
(* BTX Welcome Packet Generator (src/app.py).                              *)
(*                                                                         *)
(* The model follows one Streamlit session through main_app(): the         *)
(* "Generate PDF" handler is cut at the points where it waits for the      *)
(* outside world (a HubSpot response, the template file, the clock), so    *)
(* that the order of its steps is visible.  Texts are sequences of         *)
(* characters, so that strip() and replace() are computed; Python dicts    *)
(* are functions whose domain is the set of keys present.                  *)
(***************************************************************************)
EXTENDS Integers, Sequences, FiniteSets, TLC

(* ---------------------------- bounds ----------------------------------- *)
MaxLen == 2          \* longest first / last name the CRM returns
MaxTicks == 1        \* midnights that may pass during the session
MaxAttempts == 2     \* generate actions in the session

(* ------------------------- Python values ------------------------------- *)
None == [none |-> TRUE]
EmptyDict == [k \in {} |-> k]
EmptyStr == << >>

\* dict.get(key, default)
Get(d, k, default) == IF k \in DOMAIN d THEN d[k] ELSE default

\* truth value of a dict-or-None (`if contact_data:`, `if not company_data:`)
Truthy(d) == d # None /\ DOMAIN d # {}

\* all character sequences over chars of length 0..n
RECURSIVE StrsUpTo(_, _)
StrsUpTo(chars, n) ==
    IF n = 0 THEN {EmptyStr}
    ELSE LET shorter == StrsUpTo(chars, n - 1)
         IN  shorter \cup {Append(s, c) : s \in shorter, c \in chars}

\* str.strip(): leading and trailing whitespace removed
RECURSIVE LStrip(_)
LStrip(s) == IF s # EmptyStr /\ Head(s) = " " THEN LStrip(Tail(s)) ELSE s

RECURSIVE RStrip(_)
RStrip(s) ==
    IF s # EmptyStr /\ s[Len(s)] = " " THEN RStrip(SubSeq(s, 1, Len(s) - 1)) ELSE s

Strip(s) == RStrip(LStrip(s))

\* str.replace(' ', '_')
Replace(s) == [i \in 1..Len(s) |-> IF s[i] = " " THEN "_" ELSE s[i]]

NA == <<"N", "/", "A">>

(* ------------------------------ clock ---------------------------------- *)
MonthName ==
    <<"January", "February", "March", "April", "May", "June", "July",
      "August", "September", "October", "November", "December">>

IsLeap(y) == (y % 4 = 0 /\ y % 100 # 0) \/ y % 400 = 0

DaysIn(y, m) ==
    IF m = 2 THEN (IF IsLeap(y) THEN 29 ELSE 28)
    ELSE IF m \in {4, 6, 9, 11} THEN 30 ELSE 31

NextDay(t) ==
    IF t.d < DaysIn(t.y, t.m) THEN [t EXCEPT !.d = t.d + 1]
    ELSE IF t.m < 12 THEN [y |-> t.y, m |-> t.m + 1, d |-> 1]
    ELSE [y |-> t.y + 1, m |-> 1, d |-> 1]

Pad2(n) == IF n < 10 THEN "0" \o ToString(n) ELSE ToString(n)

\* datetime.strftime("%B %d, %Y")
StrftimeLong(t) == MonthName[t.m] \o " " \o Pad2(t.d) \o ", " \o ToString(t.y)

\* datetime.strftime("%Y%m%d")
StrftimeCompact(t) == ToString(t.y) \o Pad2(t.m) \o Pad2(t.d)

StartDates ==
    { [y |-> 2025, m |-> 3, d |-> 4],
      [y |-> 2025, m |-> 12, d |-> 31] }

(* --------------------------- CRM responses ----------------------------- *)
Statuses == {200, 401, 403, 404, 500}
Bodies == {"body-1", "body-2"}

\* requests.Response.raise_for_status(): 4xx and 5xx raise HTTPError
RaisesHTTPError(status) == status >= 400 /\ status < 600

CompanyIds == { <<"4", "2">> }

CompanyProps ==
    { [name |-> <<"A", " ", "C">>, btx_customer__ |-> <<"9">>],
      [name |-> <<"A">>, btx_customer__ |-> EmptyStr],
      [name |-> <<"A">>],
      [btx_customer__ |-> <<"9">>] }

CompanyRecords ==
    {[id |-> i, properties |-> p] : i \in CompanyIds, p \in CompanyProps}
    \cup {[properties |-> [name |-> <<"A">>]]}
    \cup {[id |-> <<"4", "2">>]}

FirstNames == StrsUpTo({"J", " "}, MaxLen)
LastNames == StrsUpTo({"D", " "}, MaxLen)

ContactProps ==
    {[firstname |-> f, lastname |-> l] : f \in FirstNames, l \in LastNames}
    \cup {[firstname |-> f] : f \in FirstNames}
    \cup {[lastname |-> l] : l \in LastNames}
    \cup {EmptyDict}

ContactIds == { <<"7">> }

ContactRecords ==
    {[id |-> i, properties |-> p] : i \in ContactIds, p \in ContactProps}
    \cup {[id |-> <<"7">>], EmptyDict}

ErrorResponses ==
    {[status |-> s, text |-> b] : s \in Statuses \ {200}, b \in Bodies}

\* POST /crm/v3/objects/companies/search
SearchResponses ==
    ErrorResponses
    \cup {[status |-> 200, json |-> [results |-> <<c>>]] : c \in CompanyRecords}
    \cup {[status |-> 200, json |-> [results |-> << >>]],
          [status |-> 200, json |-> [total |-> 0]],
          [status |-> 200,
           json |-> [results |-> << [id |-> <<"4", "2">>,
                                     properties |-> [name |-> <<"A", " ", "C">>,
                                                     btx_customer__ |-> <<"9">>]],
                                    [id |-> <<"4", "3">>,
                                     properties |-> [name |-> <<"A">>]] >>]]}

\* GET /crm/v3/objects/companies/{id}
CompanyResponses ==
    ErrorResponses
    \cup {[status |-> 200, json |-> c] : c \in CompanyRecords}

\* GET /crm/v4/objects/companies/{id}/associations/contacts
AssociationResponses ==
    ErrorResponses
    \cup {[status |-> 200, json |-> [results |-> << >>]],
          [status |-> 200, json |-> EmptyDict],
          [status |-> 200, json |-> [results |-> << [toObjectId |-> <<"7">>] >>]],
          [status |-> 200, json |-> [results |-> << [toObjectId |-> <<"7">>],
                                                    [toObjectId |-> <<"8">>] >>]],
          [status |-> 200, json |-> [results |-> << [typeId |-> <<"1">>] >>]]}

\* GET /crm/v3/objects/contacts/{id}
ContactResponses ==
    ErrorResponses
    \cup {[status |-> 200, json |-> c] : c \in ContactRecords}

(* ------------------------------ UI input ------------------------------- *)
SearchMethods == {"Search by Name", "Use Company ID"}
CompanyInputs == { EmptyStr, <<"4", "2">> }
\* (uploaded template, default template file)
TemplateSetups ==
    { <<"absent", "absent">>, <<"absent", "fillable">>,
      <<"fillable", "fillable">>, <<"unreadable", "fillable">> }

VARIABLES
    api_key,            \* sidebar text input: TRUE when a key was entered
    uploaded_template,  \* the file uploader's content
    default_template,   \* BTX_Customer_Welcome_PacketCover.pdf on disk
    now,                \* the local calendar day datetime.now() returns
    ticks,              \* midnights passed so far
    attempt,            \* generate actions started so far
    pc,                 \* position of the controller
    trace,              \* positions passed in the current generate action
    search_method, company_input,
    calls,              \* CRM requests issued in the current generate action
    responses,          \* the HTTP responses received, in order
    messages,           \* st.error / st.info / st.success / st.warning shown
    company_data, company_id, company_name,
    contact_id, contact_data,
    template_reads,     \* times the template was handed to the PDF reader
    field_values, pdf_output,
    download            \* the st.download_button on the page, or None

vars == << api_key, uploaded_template, default_template, now, ticks, attempt,
           pc, trace, search_method, company_input, calls, responses, messages,
           company_data, company_id, company_name, contact_id, contact_data,
           template_reads, field_values, pdf_output, download >>

config == << api_key, uploaded_template, default_template >>
clock == << now, ticks >>
lookup == << company_data, company_id, company_name, contact_id, contact_data >>
output == << template_reads, field_values, pdf_output, download >>

Msg(level, text) == [level |-> level, text |-> text]

Init ==
    /\ api_key \in BOOLEAN
    /\ \E setup \in TemplateSetups :
        /\ uploaded_template = setup[1]
        /\ default_template = setup[2]
    /\ now \in StartDates
    /\ ticks = 0
    /\ attempt = 0
    /\ pc = "Idle"
    /\ trace = <<"Idle">>
    /\ search_method = "Search by Name"
    /\ company_input = EmptyStr
    /\ calls = << >>
    /\ responses = << >>
    /\ messages = << >>
    /\ company_data = None
    /\ company_id = None
    /\ company_name = None
    /\ contact_id = None
    /\ contact_data = None
    /\ template_reads = 0
    /\ field_values = None
    /\ pdf_output = None
    /\ download = None

\* the wall clock passes midnight
Tick ==
    /\ ticks < MaxTicks
    /\ now' = NextDay(now)
    /\ ticks' = ticks + 1
    /\ UNCHANGED << config, attempt, pc, trace, search_method, company_input,
                    calls, responses, messages, lookup, output >>

(* ------------------------- message texts ------------------------------- *)
\* str(HTTPError) as raise_for_status() builds it: "<status> <Client|Server> Error: ..."
HTTPErrorStr(resp) ==
    [ status |-> resp.status,
      reason |-> IF resp.status < 500 THEN "Client Error" ELSE "Server Error" ]

AuthMessages ==
    << Msg("error", "Authentication Error"),
       Msg("error", "Your HubSpot API key is invalid or has expired."),
       Msg("info", "Please check your API key in the sidebar.") >>

Http404Messages(input) ==
    << Msg("error", "Not Found"),
       [level |-> "error", text |-> "Company or contact not found for: {company_input}",
        company_input |-> input] >>

\* slip: the response body is not shown
ApiErrorMessages_NoDetails(resp) ==
    << [level |-> "error", text |-> "HubSpot API Error: {e}", e |-> HTTPErrorStr(resp)] >>

ApiErrorMessages(resp) ==
    << [level |-> "error", text |-> "HubSpot API Error: {e}", e |-> HTTPErrorStr(resp)],
       [level |-> "error", text |-> "Details: {e.response.text}", body |-> resp.text] >>

\* slip: the 401 branch is missing, a 401 is reported like any other status
HTTPErrorMessages_No401(resp, input) ==
    IF resp.status = 404 THEN Http404Messages(input)
    ELSE ApiErrorMessages(resp)

\* except requests.exceptions.HTTPError as e
HTTPErrorMessages(resp, input) ==
    IF resp.status = 401 THEN AuthMessages
    ELSE IF resp.status = 404 THEN Http404Messages(input)
    ELSE ApiErrorMessages(resp)

\* except Exception as e
UnexpectedMessages(e) ==
    << Msg("error", "Unexpected Error"),
       [level |-> "error", text |-> "{str(e)}", exception |-> e],
       Msg("info", "Please check your inputs and try again.") >>

\* slip: an empty search result is reported with the texts of the 404 branch
NoCompanyMessages_As404(input) == Http404Messages(input)

\* search-by-name came back without a match
NoCompanyMessages(input) ==
    << [level |-> "error", text |-> "No company found with name: {company_input}",
        company_input |-> input],
       Msg("info", "Try using the HubSpot Company ID instead") >>

(* --------------------------- HubSpotClient ----------------------------- *)
\* slip: the name search is issued whatever the search method
CompanyLookupOp_SearchOnly(method) == "search_company_by_name"

\* which company endpoint main_app calls for a search method
CompanyLookupOp(method) ==
    IF method = "Search by Name" THEN "search_company_by_name" ELSE "get_company_by_id"

\* `if results.get('results')` / `if associations.get('results')`
HasResults(json) == "results" \in DOMAIN json /\ Len(json.results) > 0

\* search_company_by_name: first match or None
FirstMatch(json) == IF HasResults(json) THEN json.results[1] ELSE None

(* ---------------------------- PacketFiller ----------------------------- *)
\* slip: the joined name is not stripped
AccountTeam_NoStrip(contact) ==
    IF Truthy(contact)
    THEN LET contact_props == Get(contact, "properties", EmptyDict)
             firstname == Get(contact_props, "firstname", EmptyStr)
             lastname == Get(contact_props, "lastname", EmptyStr)
             account_team == firstname \o <<" ">> \o lastname
         IN  IF account_team = EmptyStr THEN NA ELSE account_team
    ELSE NA

\* Text3
AccountTeam(contact) ==
    IF Truthy(contact)
    THEN LET contact_props == Get(contact, "properties", EmptyDict)
             firstname == Get(contact_props, "firstname", EmptyStr)
             lastname == Get(contact_props, "lastname", EmptyStr)
             account_team == Strip(firstname \o <<" ">> \o lastname)
         IN  IF account_team = EmptyStr THEN NA ELSE account_team
    ELSE NA

\* slip: the default of the customer number is the empty string
CustomerNumber_EmptyDefault(company) ==
    Get(Get(company, "properties", EmptyDict), "btx_customer__", EmptyStr)

\* Text2
CustomerNumber(company) ==
    Get(Get(company, "properties", EmptyDict), "btx_customer__", NA)

\* Text1
CompanyName(company) ==
    Get(Get(company, "properties", EmptyDict), "name", NA)

FieldValues(company, contact, today) ==
    [ Text1 |-> CompanyName(company),
      Text2 |-> CustomerNumber(company),
      Text3 |-> AccountTeam(contact),
      Text4 |-> StrftimeLong(today) ]

\* slip: a template that cannot be read still yields an output document
PdfReadable_Always(template) == TRUE

\* PdfReader(template_file) parses, and page 0 carries the form
PdfReadable(template) == template = "fillable"

(* ------------------------- WorkflowController -------------------------- *)
\* line 274: a template is uploaded or the default file exists
TemplateAvailable == uploaded_template # "absent" \/ default_template # "absent"

\* line 272 / 347-351
TemplateToUse ==
    IF uploaded_template # "absent" THEN uploaded_template ELSE default_template

\* slip: the empty-input check is missing
InputRejected_Never(text) == FALSE

\* `if not company_input`
InputRejected(text) == Len(text) = 0

\* either except clause: the attempt ends with the messages shown
Abort(msgs) ==
    /\ pc' = "Failed"
    /\ trace' = Append(trace, "Failed")
    /\ messages' = messages \o msgs

\* the "Generate PDF" button, up to the company request being sent
Generate ==
    /\ pc = "Idle"
    /\ api_key
    /\ TemplateAvailable
    /\ attempt < MaxAttempts
    /\ \E method \in SearchMethods, text \in CompanyInputs :
        /\ search_method' = method
        /\ company_input' = text
        /\ IF InputRejected(text)
           THEN /\ messages' = << Msg("error", "Please enter a company name or ID") >>
                /\ pc' = "Idle"
                /\ trace' = <<"Idle">>
                /\ calls' = << >>
           ELSE /\ messages' =
                     IF method = "Search by Name"
                     THEN << [level |-> "info", text |-> "Searching for '{company_input}'...",
                               company_input |-> text] >>
                     ELSE << >>
                /\ pc' = "Searching"
                /\ trace' = <<"Idle", "Searching">>
                /\ calls' = << CompanyLookupOp(method) >>
    /\ attempt' = attempt + 1
    /\ responses' = << >>
    /\ company_data' = None
    /\ company_id' = None
    /\ company_name' = None
    /\ contact_id' = None
    /\ contact_data' = None
    /\ template_reads' = 0
    /\ field_values' = None
    /\ pdf_output' = None
    /\ download' = None
    /\ UNCHANGED << config, clock >>

\* the company response arrives: lines 118-119 / 158-163, then 320-331
CompanyResponse ==
    /\ pc = "Searching"
    /\ \E resp \in (IF search_method = "Search by Name"
                    THEN SearchResponses ELSE CompanyResponses) :
        /\ responses' = Append(responses, resp)
        /\ IF RaisesHTTPError(resp.status)
           THEN /\ Abort(HTTPErrorMessages(resp, company_input))
                /\ UNCHANGED << company_data, company_id, company_name >>
           ELSE LET by_name == search_method = "Search by Name"
                    data == IF by_name THEN FirstMatch(resp.json) ELSE resp.json
                IN  /\ company_data' = data
                    /\ IF by_name /\ ~Truthy(data)
                       THEN /\ pc' = "NotFound"
                            /\ trace' = Append(trace, "NotFound")
                            /\ messages' = messages \o NoCompanyMessages(company_input)
                            /\ UNCHANGED << company_id, company_name >>
                       ELSE IF by_name /\ "id" \notin DOMAIN data
                       THEN /\ Abort(UnexpectedMessages("'id'"))
                            /\ UNCHANGED << company_id, company_name >>
                       ELSE IF "properties" \notin DOMAIN data
                       THEN /\ Abort(UnexpectedMessages("'properties'"))
                            /\ company_id' = IF by_name THEN data.id ELSE company_input
                            /\ UNCHANGED company_name
                       ELSE IF "name" \notin DOMAIN data.properties
                       THEN /\ Abort(UnexpectedMessages("'name'"))
                            /\ company_id' = IF by_name THEN data.id ELSE company_input
                            /\ UNCHANGED company_name
                       ELSE /\ company_id' = IF by_name THEN data.id ELSE company_input
                            /\ company_name' = data.properties.name
                            /\ messages' = Append(messages,
                                  [level |-> "success", text |-> "Found company: {company_name}",
                                   company_name |-> data.properties.name])
                            /\ pc' = "Found"
                            /\ trace' = Append(trace, "Found")
    /\ UNCHANGED << config, clock, attempt, search_method, company_input, calls,
                    contact_id, contact_data, output >>

\* lines 334-335, 123-125: the association listing is requested
BeginContactLookup ==
    /\ pc = "Found"
    /\ pc' = "FetchingContact"
    /\ trace' = Append(trace, "FetchingContact")
    /\ messages' = Append(messages, Msg("info", "Fetching account team information..."))
    /\ calls' = Append(calls, "get_company_contacts")
    /\ UNCHANGED << config, clock, attempt, search_method, company_input, responses,
                    lookup, output >>

\* slip: a missing contact is reported as an error
ContactReport_Error(contact) ==
    IF Truthy(contact)
    THEN [level |-> "success", text |-> "Found account team: {contact_name}",
          contact_name |-> Strip(Get(contact.properties, "firstname", EmptyStr) \o <<" ">>
                                 \o Get(contact.properties, "lastname", EmptyStr))]
    ELSE Msg("error", "No contact associated with this company")

\* lines 337-342: what main_app reports about the contact it got
ContactReport(contact) ==
    IF Truthy(contact)
    THEN LET contact_props == contact.properties
         IN  [level |-> "success", text |-> "Found account team: {contact_name}",
              contact_name |-> Strip(Get(contact_props, "firstname", EmptyStr) \o <<" ">>
                                     \o Get(contact_props, "lastname", EmptyStr))]
    ELSE Msg("warning", "No contact associated with this company")

\* the association listing arrives: lines 126-132
AssociationResponse ==
    /\ pc = "FetchingContact"
    /\ Len(calls) = 2
    /\ \E resp \in AssociationResponses :
        /\ responses' = Append(responses, resp)
        /\ IF RaisesHTTPError(resp.status)
           THEN /\ Abort(HTTPErrorMessages(resp, company_input))
                /\ UNCHANGED << calls, contact_id, contact_data >>
           ELSE IF HasResults(resp.json)
           THEN IF "toObjectId" \in DOMAIN resp.json.results[1]
                THEN /\ contact_id' = resp.json.results[1].toObjectId
                     /\ calls' = Append(calls, "get_contact_by_id")
                     /\ UNCHANGED << pc, trace, messages, contact_data >>
                ELSE /\ Abort(UnexpectedMessages("'toObjectId'"))
                     /\ UNCHANGED << calls, contact_id, contact_data >>
           ELSE /\ contact_data' = None
                /\ messages' = Append(messages, ContactReport(None))
                /\ pc' = "Filling"
                /\ trace' = Append(trace, "Filling")
                /\ UNCHANGED << calls, contact_id >>
    /\ UNCHANGED << config, clock, attempt, search_method, company_input,
                    company_data, company_id, company_name, output >>

\* the contact record arrives: lines 140-141, then 337-342
ContactResponse ==
    /\ pc = "FetchingContact"
    /\ Len(calls) = 3
    /\ \E resp \in ContactResponses :
        /\ responses' = Append(responses, resp)
        /\ IF RaisesHTTPError(resp.status)
           THEN /\ Abort(HTTPErrorMessages(resp, company_input))
                /\ UNCHANGED contact_data
           ELSE /\ contact_data' = resp.json
                /\ IF Truthy(resp.json) /\ "properties" \notin DOMAIN resp.json
                   THEN Abort(UnexpectedMessages("'properties'"))
                   ELSE /\ messages' = Append(messages, ContactReport(resp.json))
                        /\ pc' = "Filling"
                        /\ trace' = Append(trace, "Filling")
    /\ UNCHANGED << config, clock, attempt, search_method, company_input, calls,
                    company_data, company_id, company_name, contact_id, output >>

\* lines 345-369: the template is read and fill_btx_welcome_packet runs
Fill ==
    /\ pc = "Filling"
    /\ field_values = None
    /\ template_reads' = template_reads + 1
    /\ LET fv == FieldValues(company_data, contact_data, now)
           info == Msg("info", "Filling PDF form...")
       IN  IF PdfReadable(TemplateToUse)
           THEN /\ field_values' = fv
                /\ pdf_output' = [template |-> TemplateToUse, fields |-> fv]
                /\ messages' = Append(messages, info)
                /\ UNCHANGED << pc, trace >>
           ELSE /\ Abort(<< info >> \o UnexpectedMessages("PdfReadError"))
                /\ UNCHANGED << field_values, pdf_output >>
    /\ UNCHANGED << config, clock, attempt, search_method, company_input, calls,
                    responses, lookup, download >>

\* lines 371-388: the file name is derived and the download is offered
OfferDownload ==
    /\ pc = "Filling"
    /\ field_values # None
    /\ download' =
          [ data |-> pdf_output,
            file_name |-> << "BTX_Welcome_Packet_", Replace(company_name), "_",
                             StrftimeCompact(now), ".pdf" >>,
            mime |-> "application/pdf" ]
    /\ messages' = Append(messages,
          Msg("success", "Your Welcome Packet is ready for download."))
    /\ pc' = "Ready"
    /\ trace' = Append(trace, "Ready")
    /\ UNCHANGED << config, clock, attempt, search_method, company_input, calls,
                    responses, lookup, template_reads, field_values, pdf_output >>

\* the script run ends; the page stays as rendered and the button is live again
Return ==
    /\ pc \in {"Ready", "Failed", "NotFound"}
    /\ pc' = "Idle"
    /\ trace' = Append(trace, "Idle")
    /\ UNCHANGED << config, clock, attempt, search_method, company_input, calls,
                    responses, messages, lookup, output >>

Next ==
    \/ Tick
    \/ Generate
    \/ CompanyResponse
    \/ BeginContactLookup
    \/ AssociationResponse
    \/ ContactResponse
    \/ Fill
    \/ OfferDownload
    \/ Return


Spec == Init /\ [][Next]_vars

(* ======================================================================= *)
(* Properties                                                              *)
(* ======================================================================= *)
Range(seq) == {seq[i] : i \in 1..Len(seq)}
Shown(level, text) == \E m \in Range(messages) : m.level = level /\ m.text = text
ErrorShown == \E m \in Range(messages) : m.level = "error"
Received(i, status) == i <= Len(responses) /\ responses[i].status = status

\* the positions that may follow a position within one generate action
Successors(p) ==
    CASE p = "Idle" -> {"Searching"}
      [] p = "Searching" -> {"Found", "NotFound", "Failed"}
      [] p = "Found" -> {"FetchingContact"}
      [] p = "FetchingContact" -> {"Filling", "Failed"}
      [] p = "Filling" -> {"Ready", "Failed"}
      [] OTHER -> {"Idle"}

\* C1: a generate action walks Idle -> Searching -> Found|NotFound ->
\* FetchingContact -> Filling -> Ready|Failed without repeating a step; the
\* company lookup is the one the search method selects and comes first, the
\* association listing is issued only after a company was found, the template
\* is filled only after the contact lookup returned, and no CRM operation is
\* issued twice.
C1_LinearNoRetry ==
    /\ pc = trace[Len(trace)]
    /\ trace[1] = "Idle"
    /\ \A i \in 1..(Len(trace) - 1) : trace[i + 1] \in Successors(trace[i])
    /\ \A i, j \in 1..Len(trace) :
          (i < j /\ trace[i] = trace[j]) => (i = 1 /\ j = Len(trace) /\ trace[i] = "Idle")
    /\ \A i, j \in 1..Len(calls) : calls[i] = calls[j] => i = j
    /\ Len(calls) <= 3
    /\ Len(responses) <= Len(calls)
    /\ Len(calls) <= Len(responses) + 1
    /\ (Len(calls) >= 1) <=> (Len(trace) >= 2)
    /\ Len(calls) >= 1 =>
          calls[1] = (IF search_method = "Search by Name"
                      THEN "search_company_by_name" ELSE "get_company_by_id")
    /\ Len(calls) >= 2 =>
          /\ calls[2] = "get_company_contacts"
          /\ Received(1, 200)
          /\ company_data # None
          /\ "Found" \in Range(trace)
    /\ Len(calls) >= 3 =>
          /\ calls[3] = "get_contact_by_id"
          /\ Received(2, 200)
          /\ "FetchingContact" \in Range(trace)
    /\ (template_reads > 0 \/ field_values # None \/ download # None) =>
          /\ "Filling" \in Range(trace)
          /\ Len(calls) >= 2
          /\ Len(responses) = Len(calls)
          /\ \A i \in 1..Len(responses) : responses[i].status = 200
    /\ template_reads <= 1

C1_Witness ==
    /\ pc = "Ready"
    /\ calls = << "get_company_by_id", "get_company_contacts", "get_contact_by_id" >>
    /\ trace = << "Idle", "Searching", "Found", "FetchingContact", "Filling", "Ready" >>

\* C2: a 401 from any CRM call ends the generate action in Failed with the
\* invalid/expired API key message, and nothing later runs: no further CRM
\* call, no template read, no fill, no download.
C2_AuthErrorAborts ==
    \A i \in 1..Len(responses) :
        responses[i].status = 401 =>
            /\ i = Len(responses)
            /\ Len(calls) = i
            /\ pc \in {"Failed", "Idle"}
            /\ "Failed" \in Range(trace)
            /\ Shown("error", "Authentication Error")
            /\ Shown("error", "Your HubSpot API key is invalid or has expired.")
            /\ \A m \in Range(messages) : DOMAIN m \cap {"e", "body", "exception"} = {}
            /\ template_reads = 0
            /\ field_values = None
            /\ pdf_output = None
            /\ download = None

C2_Witness ==
    /\ pc = "Failed"
    /\ Len(responses) = 3
    /\ responses[3].status = 401
    /\ calls[3] = "get_contact_by_id"

\* a message that carries the raw status of response r / its raw body
CarriesStatus(r) == \E m \in Range(messages) : "e" \in DOMAIN m /\ m.e.status = r.status
CarriesBody(r) == \E m \in Range(messages) : "body" \in DOMAIN m /\ m.body = r.text
NamesInput(text) ==
    \E m \in Range(messages) :
        /\ m.level = "error"
        /\ m.text = text
        /\ m.company_input = company_input

\* C3 as stated: every non-401 error response, HTTP 404 included, ends the
\* generate action in Failed with a message carrying the raw status and body.
C3_AsStated ==
    \A i \in 1..Len(responses) :
        (responses[i].status >= 400 /\ responses[i].status # 401) =>
            /\ "Failed" \in Range(trace)
            /\ CarriesStatus(responses[i])
            /\ CarriesBody(responses[i])

\* C3 amended: every non-401 error response ends the generate action in Failed
\* with no download; for a status other than 404 the messages carry the raw
\* status and body, for a 404 they are "Not Found" and a line naming the search
\* input, and carry neither the status nor the body.
C3_ErrorSurfaced ==
    \A i \in 1..Len(responses) :
        (responses[i].status >= 400 /\ responses[i].status # 401) =>
            /\ i = Len(responses)
            /\ Len(calls) = i
            /\ pc \in {"Failed", "Idle"}
            /\ "Failed" \in Range(trace)
            /\ download = None
            /\ field_values = None
            /\ IF responses[i].status = 404
               THEN /\ Shown("error", "Not Found")
                    /\ NamesInput("Company or contact not found for: {company_input}")
                    /\ \A m \in Range(messages) : DOMAIN m \cap {"e", "body"} = {}
               ELSE /\ CarriesStatus(responses[i])
                    /\ CarriesBody(responses[i])

C3_Witness ==
    /\ pc = "Failed"
    /\ Len(responses) = 2
    /\ responses[2].status = 404
    /\ calls[2] = "get_company_contacts"

ZeroMatches ==
    /\ search_method = "Search by Name"
    /\ Received(1, 200)
    /\ ~HasResults(responses[1].json)

DirectId404 ==
    /\ search_method = "Use Company ID"
    /\ Received(1, 404)

\* C4: a name search without a match ends the attempt in NotFound: nothing
\* further is called, read, filled or offered, the hint to use the company ID
\* is shown, and none of the texts shown coincides with what a 404 on a
\* direct-ID lookup shows (and the other way round).
C4_NotFoundTerminal ==
    /\ ZeroMatches =>
          /\ pc \in {"NotFound", "Idle"}
          /\ SubSeq(trace, 1, 3) = << "Idle", "Searching", "NotFound" >>
          /\ "Failed" \notin Range(trace)
          /\ calls = << "search_company_by_name" >>
          /\ Len(responses) = 1
          /\ template_reads = 0
          /\ field_values = None
          /\ pdf_output = None
          /\ download = None
          /\ NamesInput("No company found with name: {company_input}")
          /\ Shown("info", "Try using the HubSpot Company ID instead")
          /\ ~Shown("error", "Not Found")
          /\ ~NamesInput("Company or contact not found for: {company_input}")
    /\ DirectId404 =>
          /\ "NotFound" \notin Range(trace)
          /\ "Failed" \in Range(trace)
          /\ Shown("error", "Not Found")
          /\ ~NamesInput("No company found with name: {company_input}")
          /\ ~Shown("info", "Try using the HubSpot Company ID instead")

C4_Witness ==
    /\ ZeroMatches
    /\ pc = "NotFound"

AssociationsEmpty ==
    /\ Received(2, 200)
    /\ ~HasResults(responses[2].json)

\* C5: when the company was found and its association listing is empty, a
\* warning (not an error) is shown, no contact is fetched, the controller goes
\* on to Filling, and with a fillable template it does not fail: it can always
\* take its next step, and ends in Ready with Text3 = "N/A".
C5_ContactOptional ==
    AssociationsEmpty =>
        /\ Shown("warning", "No contact associated with this company")
        /\ calls = << calls[1], "get_company_contacts" >>
        /\ contact_data = None
        /\ "Filling" \in Range(trace)
        /\ field_values # None => field_values.Text3 = NA
        /\ TemplateToUse = "fillable" =>
              /\ ~ErrorShown
              /\ "Failed" \notin Range(trace)
              /\ pc \in {"Filling", "Ready", "Idle"}
              /\ pc = "Filling" => ENABLED (Fill \/ OfferDownload)
              /\ pc \in {"Ready", "Idle"} =>
                    /\ "Ready" \in Range(trace)
                    /\ download # None
                    /\ download.data.fields.Text3 = NA

C5_Witness ==
    /\ AssociationsEmpty
    /\ pc = "Ready"
    /\ field_values.Text3 = NA

\* C6: a document is offered only if the company lookup, the contact lookup
\* and the template fill of the same generate action all went through without
\* error, and it is the fully filled one; every error ends the attempt in
\* Failed with no document offered, from where control goes back to Idle and
\* the next generate action can start.
C6_NoPartialOutput ==
    /\ download # None =>
          /\ Len(calls) >= 2
          /\ Len(responses) = Len(calls)
          /\ \A i \in 1..Len(responses) : responses[i].status = 200
          /\ TemplateToUse = "fillable"
          /\ template_reads = 1
          /\ field_values # None
          /\ download.data = pdf_output
          /\ pdf_output.fields = field_values
          /\ ~ErrorShown
          /\ "Ready" \in Range(trace)
          /\ "Failed" \notin Range(trace)
    /\ (\E i \in 1..Len(responses) : responses[i].status >= 400) => "Failed" \in Range(trace)
    /\ (template_reads > 0 /\ TemplateToUse # "fillable") => "Failed" \in Range(trace)
    /\ "Failed" \in Range(trace) =>
          /\ ErrorShown
          /\ download = None
          /\ pc \in {"Failed", "Idle"}
    /\ pc = "Failed" => ENABLED Return
    /\ (pc = "Idle" /\ "Failed" \in Range(trace) /\ attempt < MaxAttempts) => ENABLED Generate

C6_Witness ==
    /\ pc = "Idle"
    /\ "Failed" \in Range(trace)
    /\ template_reads = 1
    /\ download = None
    /\ attempt < MaxAttempts

FirstName == Get(Get(contact_data, "properties", EmptyDict), "firstname", EmptyStr)
LastName == Get(Get(contact_data, "properties", EmptyDict), "lastname", EmptyStr)
OnlySpaces(str) == \A i \in 1..Len(str) : str[i] = " "

\* C7 as stated: Text3 is "N/A" when the contact is absent or both names are
\* empty or absent, and the trimmed "first last" in every other case.
C7_AsStated ==
    field_values # None =>
        field_values.Text3 =
            IF ~Truthy(contact_data) \/ (FirstName = EmptyStr /\ LastName = EmptyStr)
            THEN NA
            ELSE Strip(FirstName \o <<" ">> \o LastName)

\* C7 amended: Text3 is "N/A" when the contact is absent or both names are
\* empty, absent or made of whitespace only (the trimmed concatenation is
\* empty), and the trimmed "first last" in every other case.
C7_AccountTeam ==
    field_values # None =>
        /\ field_values.Text3 =
              IF ~Truthy(contact_data) \/ (OnlySpaces(FirstName) /\ OnlySpaces(LastName))
              THEN NA
              ELSE Strip(FirstName \o <<" ">> \o LastName)
        /\ field_values.Text3 # EmptyStr
        /\ Head(field_values.Text3) # " "
        /\ field_values.Text3[Len(field_values.Text3)] # " "

C7_Witness ==
    /\ field_values # None
    /\ Truthy(contact_data)
    /\ FirstName = <<" ">>
    /\ "lastname" \notin DOMAIN contact_data.properties
    /\ field_values.Text3 = NA

\* C8: Text2 is "N/A" when the company record has no customer number, and the
\* customer number itself when it has one.
C8_CustomerNumber ==
    field_values # None =>
        field_values.Text2 =
            IF "btx_customer__" \in DOMAIN company_data.properties
            THEN company_data.properties.btx_customer__
            ELSE NA

C8_Witness ==
    /\ field_values # None
    /\ "btx_customer__" \notin DOMAIN company_data.properties
    /\ field_values.Text2 = NA

\* C9: a generate action with empty search text, in either search mode, only
\* shows the input error: no CRM call, no template read, no fill, no download,
\* and the controller is in Idle.
C9_EmptyInputRejected ==
    (attempt > 0 /\ company_input = EmptyStr) =>
        /\ pc = "Idle"
        /\ trace = << "Idle" >>
        /\ calls = << >>
        /\ responses = << >>
        /\ template_reads = 0
        /\ field_values = None
        /\ pdf_output = None
        /\ download = None
        /\ messages = << [level |-> "error", text |-> "Please enter a company name or ID"] >>

C9_Witness ==
    /\ attempt > 0
    /\ company_input = EmptyStr
    /\ search_method = "Use Company ID"
    /\ pc = "Idle"

RECURSIVE DaysFrom(_, _)
DaysFrom(t, n) == IF n = 0 THEN {t} ELSE {t} \cup DaysFrom(NextDay(t), n - 1)

\* the calendar days the clock can show
Calendar == UNION {DaysFrom(t, MaxTicks) : t \in StartDates}

\* C10: in Ready, the day in the download's file name is the day written into
\* Text4, however the clock advanced between the fill and the file name.
C10_SameDay ==
    pc = "Ready" =>
        \E t \in Calendar :
            /\ field_values.Text4 = StrftimeLong(t)
            /\ download.file_name[4] = StrftimeCompact(t)
====
